---- MODULE Spec2Model ----
(***************************************************************************)
(* A model of font_atlas (src/font_atlas.cpp): the UTF-8 codepoint         *)
(* decoder, the word tokenizer, the word cache with its full-flush         *)
(* eviction, the render layout (text) and the size query (text_size).      *)
(***************************************************************************)
EXTENDS Integers, Sequences, FiniteSets, TLC

VARIABLES
    font,         \* the font's metrics, as the rasterization backend reports them
    prerendered,  \* _prerendered: word string -> surface (NULL when rendering failed)
    others,       \* number of _prerendered entries keyed by words outside the tracked texts
    nextSurface,  \* identity the next rasterized surface gets
    freed,        \* surfaces released by SDL_FreeSurface
    hist,         \* per word, the rasterizer calls and first surface since the last flush
    input,        \* the arguments the caller passes
    ret           \* the last call: its operation and result

vars == <<font, prerendered, others, nextSurface, freed, hist, input, ret>>

NULL == 0

(***************************************************************************)
(* Integer helpers for the C bit operators.                                *)
(***************************************************************************)
RECURSIVE Pow2(_)
Pow2(n) == IF n = 0 THEN 1 ELSE 2 * Pow2(n - 1)

RECURSIVE BitAnd(_, _)
BitAnd(a, b) ==
    IF a = 0 \/ b = 0 THEN 0
    ELSE (IF a % 2 = 1 /\ b % 2 = 1 THEN 1 ELSE 0) + (2 * BitAnd(a \div 2, b \div 2))

RECURSIVE BitOr(_, _)
BitOr(a, b) ==
    IF a = 0 THEN b
    ELSE IF b = 0 THEN a
    ELSE (IF a % 2 = 1 \/ b % 2 = 1 THEN 1 ELSE 0) + (2 * BitOr(a \div 2, b \div 2))

Shl(a, n) == a * Pow2(n)
Shr(a, n) == a \div Pow2(n)

Max(a, b) == IF a >= b THEN a ELSE b

RECURSIVE SeqMax(_)
SeqMax(s) == IF Len(s) = 1 THEN s[1] ELSE Max(s[1], SeqMax(Tail(s)))

(***************************************************************************)
(* Codepoint decoder.                                                      *)
(***************************************************************************)

\* is_utf8_following_byte (util.hpp): a continuation byte has top bits 10.
is_utf8_following_byte(b) == BitAnd(b, 192) = 128

\* const int other_bits = 6: the bits taken from each continuation byte.
other_bits == 6

\* The while loop of utf8_to_ucs4, one iteration per leading 1 bit of t.
\* st is the record of the function's locals; coded is the rest of the deque.
RECURSIVE utf8_loop(_)
utf8_loop(st) ==
    IF BitAnd(st.t, 192) = 192
    THEN utf8_loop([t              |-> BitAnd(Shl(st.t, 1), 255),
                    total_bits     |-> st.total_bits + 6,
                    high_bit_mask  |-> Shr(st.high_bit_mask, 1),
                    high_bit_shift |-> st.high_bit_shift + 1,
                    charcode       |-> BitOr(Shl(st.charcode, other_bits),
                                             BitAnd(Head(st.coded), Pow2(other_bits) - 1)),
                    coded          |-> Tail(st.coded)])
    ELSE st

utf8_to_ucs4(coded) ==
    LET t == Head(coded)
    IN  IF t < 128 THEN t
        ELSE LET st == utf8_loop([t |-> t, total_bits |-> 0,
                                  high_bit_mask |-> Pow2(6) - 1,
                                  high_bit_shift |-> 0, charcode |-> 0,
                                  coded |-> Tail(coded)])
             IN  BitOr(st.charcode,
                       Shl(BitAnd(Shr(st.t, st.high_bit_shift), st.high_bit_mask),
                           st.total_bits))

\* The byte a char pointer into s.c_str() reads: index Len(s)+1 is the terminator.
CStr(s) == s \o <<0>>
SpaceLiteral == <<32, 0>>

\* The backward walk of get_last_ucs4: d grows at the front.
RECURSIVE last_walk(_, _, _)
last_walk(buf, ptr, d) ==
    IF is_utf8_following_byte(buf[ptr])
    THEN last_walk(buf, ptr - 1, <<buf[ptr]>> \o d)
    ELSE <<buf[ptr]>> \o d

get_last_ucs4(s) ==
    LET ptr == Len(s)
    IN  IF CStr(s)[ptr] = 0
        THEN utf8_to_ucs4(last_walk(SpaceLiteral, 1, <<>>))
        ELSE utf8_to_ucs4(last_walk(CStr(s), ptr, <<>>))

\* The forward walk of get_first_ucs4: d grows at the back.
RECURSIVE first_walk(_, _, _)
first_walk(buf, ptr, d) ==
    IF is_utf8_following_byte(buf[ptr])
    THEN first_walk(buf, ptr + 1, d \o <<buf[ptr]>>)
    ELSE d

get_first_ucs4(s) ==
    LET buf == IF CStr(s)[1] = 0 THEN SpaceLiteral ELSE CStr(s)
    IN  utf8_to_ucs4(first_walk(buf, 2, <<buf[1]>>))

(***************************************************************************)
(* Inputs of the decoder: words made of UTF-8 encoded codepoints.          *)
(***************************************************************************)
MaxWordCps == 2

\* Codepoints at the edges of the 1-, 2-, 3- and 4-byte ranges, and inside them.
Codepoints == {0, 1, 65, 127, 128, 233, 2047, 2048, 8364, 65535, 65536, 128512, 1114111}

\* Standard UTF-8 encoding of a codepoint (RFC 3629).
Utf8Encode(c) ==
    IF c < 128 THEN <<c>>
    ELSE IF c < 2048 THEN <<192 + (c \div 64), 128 + (c % 64)>>
    ELSE IF c < 65536
    THEN <<224 + (c \div 4096), 128 + ((c \div 64) % 64), 128 + (c % 64)>>
    ELSE <<240 + (c \div 262144), 128 + ((c \div 4096) % 64),
           128 + ((c \div 64) % 64), 128 + (c % 64)>>

RECURSIVE EncodeAll(_)
EncodeAll(cps) == IF cps = <<>> THEN <<>> ELSE Utf8Encode(Head(cps)) \o EncodeAll(Tail(cps))

CodepointWords == UNION {[1..n -> Codepoints] : n \in 1..MaxWordCps}

NoCall == [op |-> "none", crashed |-> FALSE]

FixedFont == [glyph_w |-> <<>>, space_advance |-> 0, kern_left |-> <<>>, kern_right |-> <<>>,
              line_skip |-> 0, height |-> 0]

EmptyMap == [w \in {} |-> NULL]

\* No atlas: the decoder's helpers are free functions of the word passed.
InitUtf8 ==
    /\ font = FixedFont
    /\ prerendered = EmptyMap
    /\ others = 0
    /\ nextSurface = 1
    /\ freed = {}
    /\ hist = EmptyMap
    /\ input \in [cps : CodepointWords]
    /\ ret = NoCall

GetFirst ==
    /\ ret' = [op |-> "get_first_ucs4", value |-> get_first_ucs4(EncodeAll(input.cps))]
    /\ UNCHANGED <<font, prerendered, others, nextSurface, freed, hist, input>>

GetLast ==
    /\ ret' = [op |-> "get_last_ucs4", value |-> get_last_ucs4(EncodeAll(input.cps))]
    /\ UNCHANGED <<font, prerendered, others, nextSurface, freed, hist, input>>

NextUtf8 == GetFirst \/ GetLast

SpecUtf8 == InitUtf8 /\ [][NextUtf8]_vars

\* C9: first/last codepoint extraction returns the first/last codepoint of a
\* word made of valid UTF-8 encoded codepoints, for every codepoint with a
\* 1- to 4-byte encoding.
C9_RoundTrip ==
    /\ ret.op = "get_first_ucs4" => ret.value = input.cps[1]
    /\ ret.op = "get_last_ucs4" => ret.value = input.cps[Len(input.cps)]

\* The same restricted to a boundary codepoint other than U+0000: a word whose
\* first (last) byte is 0 is decoded as a space there.
RoundTripNonZero ==
    /\ (ret.op = "get_first_ucs4" /\ input.cps[1] # 0) => ret.value = input.cps[1]
    /\ (ret.op = "get_last_ucs4" /\ input.cps[Len(input.cps)] # 0)
          => ret.value = input.cps[Len(input.cps)]

(***************************************************************************)
(* Word cache: font_atlas::word and font_atlas::clear.                     *)
(***************************************************************************)

\* if (_prerendered.size() > 40000)
FlushThreshold == 40000

\* Bounds of the explored cache: the number of tracked words, the surfaces
\* rasterized in one behaviour, and how far below the threshold the
\* pre-filled cache starts.
MaxWords == 3
MaxSurfaces == 5
Margin == 2

\* The bytes texts are made of: 'a', 'b' and the space.
Letters == {97, 98}
Space == 32

WordList == << <<97>>, <<98>>, <<97, 98>>, <<98, 97>>, <<97, 97>>, <<98, 98>> >>

Words == {WordList[i] : i \in 1..(IF MaxWords < Len(WordList) THEN MaxWords ELSE Len(WordList))}

\* The cache as one value: the members of font_atlas the cache code touches.
Cache == [map |-> prerendered, others |-> others, next |-> nextSurface,
          freed |-> freed, hist |-> hist]

Size(c) == Cardinality(DOMAIN c.map) + c.others

Live(c) == {c.map[w] : w \in DOMAIN c.map} \ {NULL}

\* font_atlas::clear: free every surface, empty the map.
clear(c) ==
    [c EXCEPT !.freed = c.freed \cup Live(c),
              !.map = EmptyMap,
              !.others = 0,
              !.hist = EmptyMap]

\* The threshold test of word(), and the same with >= in place of >.
cache_full_at(size) == size >= FlushThreshold
cache_full(size) == size > FlushThreshold

\* The miss test of word(), and a lookup that never finds its word.
cache_miss_always(map, w) == TRUE
cache_miss(map, w) == w \notin DOMAIN map

\* What the lookup adds to the history of w since the last flush.
Record(h, w, rasterized, surf) ==
    IF w \in DOMAIN h
    THEN [h EXCEPT ![w].calls = @ + (IF rasterized THEN 1 ELSE 0)]
    ELSE [x \in DOMAIN h \cup {w} |->
            IF x = w THEN [calls |-> IF rasterized THEN 1 ELSE 0, first |-> surf]
            ELSE h[x]]

\* font_atlas::word after the threshold test: c1 is the cache the lookup sees.
word_lookup(c1, w, ok) ==
    IF cache_miss(c1.map, w)
    THEN [cache |-> [c1 EXCEPT
                       !.map = [x \in DOMAIN c1.map \cup {w} |->
                                   IF x = w THEN (IF ok THEN c1.next ELSE NULL)
                                   ELSE c1.map[x]],
                       !.next = IF ok THEN c1.next + 1 ELSE c1.next,
                       !.hist = Record(c1.hist, w, TRUE,
                                       IF ok THEN c1.next ELSE NULL)],
          surf |-> IF ok THEN c1.next ELSE NULL]
    ELSE [cache |-> [c1 EXCEPT !.hist = Record(c1.hist, w, FALSE, c1.map[w])],
          surf |-> c1.map[w]]

\* font_atlas::word(w). ok: whether TTF_RenderUTF8_Blended returns a surface
\* (it returns NULL on failure) should the lookup miss.
\* The result is the cache after the call and the surface returned.
word(c, w, ok) ==
    word_lookup(IF cache_full(Size(c)) THEN clear(c) ELSE c, w, ok)

\* font_atlas::word on a word string outside Words that is not cached: always a miss.
word_untracked(c) ==
    LET c1 == IF cache_full(Size(c)) THEN clear(c) ELSE c
    IN  [c1 EXCEPT !.others = c1.others + 1]

SetCache(c) ==
    /\ prerendered' = c.map
    /\ others' = c.others
    /\ nextSurface' = c.next
    /\ freed' = c.freed
    /\ hist' = c.hist

\* What a lookup found at entry, kept with its result.
Entry(c, w) ==
    [size |-> Size(c), live |-> Live(c),
     cached |-> w \in DOMAIN c.map,
     old |-> IF w \in DOMAIN c.map THEN c.map[w] ELSE NULL]

\* A fresh atlas, or one in which FlushThreshold - Margin distinct words
\* outside Words were looked up since construction.
InitCache ==
    /\ font = FixedFont
    /\ prerendered = EmptyMap
    /\ others \in {0, FlushThreshold - Margin}
    /\ nextSurface = 1
    /\ freed = {}
    /\ hist = EmptyMap
    /\ input = [none |-> TRUE]
    /\ ret = NoCall

WordReturns(w, r) ==
    /\ r.cache.next <= MaxSurfaces + 1
    /\ SetCache(r.cache)
    /\ ret' = [op |-> "word", crashed |-> FALSE, w |-> w, surf |-> r.surf,
               entry |-> Entry(Cache, w)]

Word(w, ok) ==
    /\ WordReturns(w, word(Cache, w, ok))
    /\ UNCHANGED <<font, input>>

\* Lookups of further distinct words are explored next to the threshold only.
WordUntracked ==
    /\ Size(Cache) >= FlushThreshold - Margin
    /\ SetCache(word_untracked(Cache))
    /\ ret' = [op |-> "word_untracked", entry |-> [size |-> Size(Cache), live |-> Live(Cache)]]
    /\ UNCHANGED <<font, input>>

NextCache ==
    \/ \E w \in Words, ok \in BOOLEAN : Word(w, ok)
    \/ WordUntracked

SpecCache == InitCache /\ [][NextCache]_vars

\* C3: between two flushes the rasterizer is called at most once per distinct
\* word string, every lookup of a word returns the surface its first lookup
\* returned, and two different words never share a surface.
C3_CacheIsFunction ==
    /\ \A w \in DOMAIN hist : hist[w].calls <= 1
    /\ ret.op = "word" => ret.surf = hist[ret.w].first
    /\ \A w1, w2 \in DOMAIN hist :
          (w1 # w2 /\ hist[w1].first # NULL) => hist[w1].first # hist[w2].first

\* A cached word was looked up again, with another word cached beside it.
C3_Witness ==
    /\ ret.op = "word"
    /\ ret.entry.cached
    /\ ret.surf # NULL
    /\ \E w \in DOMAIN hist : w # ret.w /\ hist[w].first # NULL

\* C4: a lookup entered with more than 40,000 entries releases every cached
\* surface and empties the map before it is served, so it rasterizes its word
\* anew; a lookup entered with 40,000 entries or fewer releases nothing and
\* serves a cached word from the cache; the entry count never exceeds 40,001.
C4_FlushAboveThreshold ==
    /\ Size(Cache) <= FlushThreshold + 1
    /\ (ret.op = "word" /\ ret.entry.size > FlushThreshold) =>
          /\ ret.entry.live \subseteq freed
          /\ DOMAIN prerendered = {ret.w}
          /\ others = 0
          /\ hist[ret.w].calls = 1
          /\ ret.surf \notin ret.entry.live
    /\ (ret.op = "word" /\ ret.entry.size <= FlushThreshold) =>
          /\ ret.entry.live \subseteq Live(Cache)
          /\ ret.entry.size <= Size(Cache)
          /\ ret.entry.cached => ret.surf = ret.entry.old
    /\ (ret.op = "word_untracked" /\ ret.entry.size > FlushThreshold) =>
          /\ ret.entry.live \subseteq freed
          /\ Size(Cache) = 1
    /\ (ret.op = "word_untracked" /\ ret.entry.size <= FlushThreshold) =>
          /\ ret.entry.live \subseteq Live(Cache)
          /\ Size(Cache) = ret.entry.size + 1

\* A word cached before was looked up with 40,001 entries in the cache.
C4_Witness ==
    /\ ret.op = "word"
    /\ ret.entry.size = FlushThreshold + 1
    /\ ret.entry.cached
    /\ ret.entry.old # NULL
    /\ ret.surf # NULL

(***************************************************************************)
(* Word tokenizer: split_words.                                            *)
(***************************************************************************)
NPOS == 0

\* t.find(' ', from), positions counted from 1.
RECURSIVE find_space(_, _)
find_space(t, from) ==
    IF from > Len(t) THEN NPOS
    ELSE IF t[from] = Space THEN from
    ELSE find_space(t, from + 1)

RECURSIVE split_loop(_, _, _)
split_loop(t, last_pos, words) ==
    LET pos == find_space(t, last_pos)
    IN  IF pos # NPOS
        THEN LET w == SubSeq(t, last_pos, pos - 1)
             IN  split_loop(t, pos + 1, IF w # <<>> THEN Append(words, w) ELSE words)
        ELSE LET w == SubSeq(t, last_pos, Len(t))
             IN  IF w # <<>> THEN Append(words, w) ELSE words

split_words(t) == split_loop(t, 1, <<>>)

(***************************************************************************)
(* The rasterization backend, as far as the layout reads it.               *)
(***************************************************************************)

\* surface->w of the surface TTF_RenderUTF8_Blended makes of word w: the sum
\* of its glyphs' widths.
RECURSIVE WordWidth(_, _)
WordWidth(f, w) == IF w = <<>> THEN 0 ELSE f.glyph_w[Head(w)] + WordWidth(f, Tail(w))

\* TTF_SizeUTF8 of a whole string: glyph widths and space advances, one font height.
RECURSIVE StringWidth(_, _)
StringWidth(f, t) ==
    IF t = <<>> THEN 0
    ELSE (IF Head(t) = Space THEN f.space_advance ELSE f.glyph_w[Head(t)])
         + StringWidth(f, Tail(t))

\* Reading surface->w through a pointer that is NULL or was freed is undefined:
\* the call crashes or reads some value. ub is the outcome the build produces.
Garbage == {0, 9}
UBOutcomes == {[crash |-> TRUE, w |-> 0]} \cup {[crash |-> FALSE, w |-> g] : g \in Garbage}

Valid(c, s) == s # NULL /\ s \notin c.freed

(***************************************************************************)
(* Size query: font_atlas::text_size.                                      *)
(***************************************************************************)
Failure == <<-1, -1>>

\* A call that crashed returns nothing.
NoResult == <<>>

\* The test of line 252, and the same with the comparison turned around.
line_full_inverted(additional_width, current_line_width, max_line_width) ==
    additional_width + current_line_width <= max_line_width
line_full(additional_width, current_line_width, max_line_width) ==
    additional_width + current_line_width >= max_line_width

\* The test of line 256, and the same with > in place of >=.
word_too_wide_strict(w, max_line_width) == w > max_line_width
word_too_wide(w, max_line_width) == w >= max_line_width

\* The for loop of text_size from word k on. st holds the locals, the cache
\* and the surfaces word() returned so far.
RECURSIVE size_loop(_, _, _, _, _, _, _)

\* The loop body once surf->w is read as surf_w: the line-breaking decision.
size_pack(f, words, max_line_width, failing, ub, k, st, cache, got, surf_w) ==
    IF line_full(surf_w + f.space_advance, st.current_line_width, max_line_width)
    THEN IF word_too_wide(surf_w, max_line_width)
         THEN [cache |-> cache, surfaces |-> got, crashed |-> FALSE, result |-> Failure]
         ELSE size_loop(f, words, max_line_width, failing, ub, k + 1,
                 [cache |-> cache, surfaces |-> got,
                  actual_max_width |-> Max(st.current_line_width, st.actual_max_width),
                  current_line_width |-> surf_w,
                  current_line_num_words |-> 1,
                  lines |-> st.lines + 1])
    ELSE size_loop(f, words, max_line_width, failing, ub, k + 1,
                 [cache |-> cache, surfaces |-> got,
                  actual_max_width |-> st.actual_max_width,
                  current_line_width |->
                      st.current_line_width + surf_w + f.space_advance,
                  current_line_num_words |-> st.current_line_num_words + 1,
                  lines |-> st.lines])

\* The loop body after auto surf = word(words[k]): r is what word() returned.
size_step(f, words, max_line_width, failing, ub, k, st, r) ==
    IF ~Valid(r.cache, r.surf) /\ ub.crash
    THEN [cache |-> r.cache, surfaces |-> Append(st.surfaces, r.surf),
          crashed |-> TRUE, result |-> NoResult]
    ELSE size_pack(f, words, max_line_width, failing, ub, k, st, r.cache,
                   Append(st.surfaces, r.surf),
                   IF Valid(r.cache, r.surf) THEN WordWidth(f, words[k]) ELSE ub.w)

size_loop(f, words, max_line_width, failing, ub, k, st) ==
    IF k > Len(words)
    THEN [cache |-> st.cache, surfaces |-> st.surfaces, crashed |-> FALSE,
          result |-> <<Max(st.current_line_width, st.actual_max_width),
                       st.lines * f.line_skip>>]
    ELSE size_step(f, words, max_line_width, failing, ub, k, st,
                   word(st.cache, words[k], words[k] \notin failing))

\* text_size's bounded mode after int current_line_width = word(words[0])->w.
size_first(f, words, max_line_width, failing, ub, r) ==
    IF ~Valid(r.cache, r.surf) /\ ub.crash
    THEN [cache |-> r.cache, surfaces |-> <<r.surf>>, crashed |-> TRUE,
          result |-> NoResult]
    ELSE size_loop(f, words, max_line_width, failing, ub, 1,
            [cache |-> r.cache, surfaces |-> <<r.surf>>,
             actual_max_width |-> 0,
             lines |-> 1,
             current_line_num_words |-> 1,
             current_line_width |->
                 IF Valid(r.cache, r.surf) THEN WordWidth(f, words[1]) ELSE ub.w])

size_words(c, f, words, max_line_width, failing, ub) ==
    IF words = <<>>
    THEN [cache |-> c, surfaces |-> <<>>, crashed |-> FALSE, result |-> <<0, 0>>]
    ELSE size_first(f, words, max_line_width, failing, ub,
                    word(c, words[1], words[1] \notin failing))

\* failing: the words the backend fails on during this call.
text_size(c, f, t, max_line_width, failing, ub) ==
    IF max_line_width = -1
    THEN [cache |-> c, surfaces |-> <<>>, crashed |-> FALSE,
          result |-> IF failing # {} THEN Failure ELSE <<StringWidth(f, t), f.height>>]
    ELSE size_words(c, f, split_words(t), max_line_width, failing, ub)

(***************************************************************************)
(* Size queries on a font atlas: texts, budgets and fonts explored.        *)
(***************************************************************************)
MaxTextLen == 4
MaxBudget == 5

Texts == UNION {[1..n -> Letters \cup {Space}] : n \in 0..MaxTextLen}
Budgets == -1..MaxBudget

GlyphWidths == {[b \in Letters |-> IF b = 97 THEN wa ELSE wb] : wa \in {1, 2}, wb \in {1, 3}}
SpaceAdvances == {0, 1}
NoKerning == [b \in Letters |-> 0]

MeasureFonts == [glyph_w : GlyphWidths, space_advance : SpaceAdvances,
                 kern_left : {NoKerning}, kern_right : {NoKerning},
                 line_skip : {3}, height : {2}]

WordSet(t) == {split_words(t)[i] : i \in 1..Len(split_words(t))}

\* The backend renders every word, or fails on one of them.
FailingSets(t) == {{}} \cup {{w} : w \in WordSet(t)}

\* An atlas as in InitCache over one of the fonts, and the arguments of the
\* size queries made on it.
InitMeasure ==
    /\ font \in MeasureFonts
    /\ prerendered = EmptyMap
    /\ others \in {0, FlushThreshold - Margin}
    /\ nextSurface = 1
    /\ freed = {}
    /\ hist = EmptyMap
    /\ \E t \in Texts :
          input \in [text : {t}, max_line_width : Budgets, failing : FailingSets(t)]
    /\ ret = NoCall

Running == ~ret.crashed

TextSizeReturns(r) ==
    /\ r.cache.next <= MaxSurfaces + 1
    /\ SetCache(r.cache)
    /\ ret' = [op |-> "text_size", result |-> r.result, crashed |-> r.crashed,
               surfaces |-> r.surfaces]

TextSize(ub) ==
    /\ Running
    /\ TextSizeReturns(text_size(Cache, font, input.text, input.max_line_width,
                                 input.failing, ub))
    /\ UNCHANGED <<font, input>>

NextMeasure == \E ub \in UBOutcomes : TextSize(ub)

SpecMeasure == InitMeasure /\ [][NextMeasure]_vars

\* The last call was a bounded size query of a text with at least one word,
\* and word() returned a surface for every word.
InWords == split_words(input.text)

AllRendered == \A i \in 1..Len(ret.surfaces) : ret.surfaces[i] # NULL

MeasuredWords ==
    /\ ret.op = "text_size"
    /\ input.max_line_width # -1
    /\ InWords # <<>>
    /\ AllRendered
    /\ ~ret.crashed

\* Greedy packing that takes every word once: the first word opens line 1 at
\* its own width, each later word joins the current line (its width plus one
\* space advance) when the line stays below the budget and opens a new line
\* otherwise. st is <<widest line, current line, lines>>.
RECURSIVE PackOnce(_, _, _, _, _)
PackOnce(f, words, max_w, k, st) ==
    IF k > Len(words) THEN <<Max(st[1], st[2]), st[3] * f.line_skip>>
    ELSE LET w == WordWidth(f, words[k])
         IN  IF st[2] + w + f.space_advance >= max_w
             THEN PackOnce(f, words, max_w, k + 1, <<Max(st[1], st[2]), w, st[3] + 1>>)
             ELSE PackOnce(f, words, max_w, k + 1,
                           <<st[1], st[2] + w + f.space_advance, st[3]>>)

\* C2: a bounded size query accounts for every word exactly once: the result
\* is that of the packing above, the line count never exceeds the number of
\* words, and one word narrower than the budget gives (its width, one line-skip).
C2_EveryWordOnce ==
    (MeasuredWords /\ ret.result # Failure) =>
        /\ ret.result = PackOnce(font, InWords, input.max_line_width, 2,
                                 <<0, WordWidth(font, InWords[1]), 1>>)
        /\ ret.result[2] <= Len(InWords) * font.line_skip
        /\ (Len(InWords) = 1 /\ WordWidth(font, InWords[1]) < input.max_line_width)
              => ret.result = <<WordWidth(font, InWords[1]), font.line_skip>>

\* C5: a bounded size query of a text with at least one word returns (-1,-1)
\* exactly when some word's surface is at least as wide as the budget.
C5_FailureIffWordTooWide ==
    MeasuredWords =>
        (ret.result = Failure
           <=> \E i \in 1..Len(InWords) :
                  WordWidth(font, InWords[i]) >= input.max_line_width)

\* A two-word text failed on its second word, the first being narrow enough.
C5_Witness ==
    /\ MeasuredWords
    /\ ret.result = Failure
    /\ Len(InWords) = 2
    /\ WordWidth(font, InWords[1]) < input.max_line_width
    /\ WordWidth(font, InWords[2]) = input.max_line_width

\* The size the same atlas reports next for the same text under budget w2.
NextSize(w2) ==
    text_size(Cache, font, input.text, w2, {}, [crash |-> TRUE, w |-> 0]).result

\* C6: for the same text, a budget no wider than the one just queried never
\* yields a smaller height, unless one of the two queries fails.
C6_Monotone ==
    (MeasuredWords /\ ret.result # Failure) =>
        \A w2 \in Budgets \ {-1} :
            (w2 <= input.max_line_width /\ NextSize(w2) # Failure)
                => ret.result[2] <= NextSize(w2)[2]

\* A narrower budget that does not fail needs strictly more lines.
C6_Witness ==
    /\ MeasuredWords
    /\ ret.result # Failure
    /\ Len(InWords) = 2
    /\ \E w2 \in Budgets \ {-1} :
          /\ w2 < input.max_line_width
          /\ NextSize(w2) # Failure
          /\ NextSize(w2)[2] > ret.result[2]

\* C7: when word() obtains no surface for some word of the text, the bounded
\* size query returns (-1,-1).
C7_RasterFailureIsSentinel ==
    (/\ ret.op = "text_size"
     /\ input.max_line_width # -1
     /\ \E i \in 1..Len(ret.surfaces) : ret.surfaces[i] = NULL)
        => (~ret.crashed /\ ret.result = Failure)

(***************************************************************************)
(* Render layout: font_atlas::text.                                        *)
(***************************************************************************)

\* TTF_GetFontKerningSizeGlyphs against the space, by the word's boundary codepoint.
get_word_left_kerning(f, w) == f.kern_left[get_last_ucs4(w)]
get_word_right_kerning(f, w) == f.kern_right[get_first_ucs4(w)]

\* The test of line 163, and the same with <= in place of <.
fits_on_line_or_fills(new_line_width, max_line_width) ==
    max_line_width = -1 \/ new_line_width <= max_line_width
fits_on_line(new_line_width, max_line_width) ==
    max_line_width = -1 \/ new_line_width < max_line_width

\* SDL_CreateRGBSurfaceWithFormat(0, 0, font_height(), 32, ...), and the same
\* with width and height exchanged.
empty_surface_swapped(f) == [w |-> f.height, h |-> 0]
empty_surface(f) == [w |-> 0, h |-> f.height]

\* The loop that fetches every word's surface, from word k on.
RECURSIVE fetch(_, _, _, _, _)
fetch_next(r, words, failing, k, surfaces) ==
    fetch(r.cache, words, failing, k + 1, Append(surfaces, r.surf))

fetch(c, words, failing, k, surfaces) ==
    IF k > Len(words) THEN [cache |-> c, surfaces |-> surfaces]
    ELSE fetch_next(word(c, words[k], words[k] \notin failing),
                    words, failing, k, surfaces)

\* The line-breaking loop for the pair (words[n], words[n+1]), n counted from 1.
\* sw[i] is what surfaces[i]->w reads. st holds widths, spaces_per_line and
\* surfaces_per_line (as indices into surfaces).
RECURSIVE break_loop(_, _, _, _, _, _)
break_loop(f, words, sw, max_line_width, n, st) ==
    IF n + 1 > Len(words) THEN st
    ELSE
    LET last == Len(st.widths)
        line_width == st.widths[last]
        join_width == get_word_left_kerning(f, words[n]) + f.space_advance
                        + get_word_right_kerning(f, words[n + 1])
        new_line_width == line_width + join_width + sw[n + 1]
    IN  IF fits_on_line(new_line_width, max_line_width)
        THEN break_loop(f, words, sw, max_line_width, n + 1,
                [widths |-> [st.widths EXCEPT ![last] = new_line_width],
                 spaces_per_line |->
                     [st.spaces_per_line EXCEPT ![last] = Append(@, join_width)],
                 surfaces_per_line |->
                     [st.surfaces_per_line EXCEPT ![last] = Append(@, n + 1)]])
        ELSE break_loop(f, words, sw, max_line_width, n + 1,
                [widths |-> Append(st.widths, sw[n + 1]),
                 spaces_per_line |-> Append(st.spaces_per_line, <<0>>),
                 surfaces_per_line |-> Append(st.surfaces_per_line, <<n + 1>>)])

\* The blit loop over one line: the x at which each surface lands.
RECURSIVE blit_line(_, _, _, _, _, _)
blit_line(sw, line, spaces, m, x, placed) ==
    IF m > Len(line) THEN placed
    ELSE blit_line(sw, line, spaces, m + 1, x + spaces[m] + sw[line[m]],
                   Append(placed, [surface |-> line[m], x |-> x + spaces[m],
                                   w |-> sw[line[m]]]))

\* What surfaces[i]->w reads for each fetched surface.
SurfaceWidths(f, words, got, ub) ==
    [i \in 1..Len(got.surfaces) |->
        IF Valid(got.cache, got.surfaces[i]) THEN WordWidth(f, words[i]) ELSE ub.w]

\* The canvas and the blits, once the lines are broken.
composite(f, got, sw, st) ==
    [cache |-> got.cache, surfaces |-> got.surfaces, crashed |-> FALSE,
     canvas |-> [w |-> SeqMax(st.widths), h |-> f.line_skip * Len(st.widths)],
     widths |-> st.widths,
     lines |-> [n \in 1..Len(st.surfaces_per_line) |->
                  blit_line(sw, st.surfaces_per_line[n], st.spaces_per_line[n],
                            1, 0, <<>>)]]

\* text() after the fetch loop: got is the cache and the surfaces fetched.
text_layout(f, t, words, got, sw, max_line_width, ub) ==
    IF t = <<>> \/ got.surfaces = <<>>
    THEN [cache |-> got.cache, surfaces |-> got.surfaces, crashed |-> FALSE,
          canvas |-> empty_surface(f), widths |-> <<>>, lines |-> <<>>]
    ELSE IF ub.crash /\ \E i \in 1..Len(got.surfaces) : ~Valid(got.cache, got.surfaces[i])
    THEN [cache |-> got.cache, surfaces |-> got.surfaces, crashed |-> TRUE,
          canvas |-> NoResult, widths |-> <<>>, lines |-> <<>>]
    ELSE composite(f, got, sw,
            break_loop(f, words, sw, max_line_width, 1,
                [widths |-> <<sw[1]>>,
                 spaces_per_line |-> << <<0>> >>,
                 surfaces_per_line |-> << <<1>> >>]))

text_fetched(f, t, words, got, max_line_width, ub) ==
    text_layout(f, t, words, got, SurfaceWidths(f, words, got, ub), max_line_width, ub)

text_words(c, f, t, words, max_line_width, failing, ub) ==
    text_fetched(f, t, words, fetch(c, words, failing, 1, <<>>), max_line_width, ub)

\* failing: the words the backend fails on during this call.
text(c, f, t, max_line_width, failing, ub) ==
    text_words(c, f, t, split_words(t), max_line_width, failing, ub)

(***************************************************************************)
(* Rendering on a font atlas: the fonts explored have kerning.             *)
(***************************************************************************)
Kernings == {[left  |-> [b \in Letters |-> 0], right |-> [b \in Letters |-> 0]],
             [left  |-> [b \in Letters |-> IF b = 97 THEN -1 ELSE 0],
              right |-> [b \in Letters |-> 0]],
             [left  |-> [b \in Letters |-> 0],
              right |-> [b \in Letters |-> IF b = 98 THEN 1 ELSE 0]],
             [left  |-> [b \in Letters |-> IF b = 98 THEN -2 ELSE 0],
              right |-> [b \in Letters |-> IF b = 97 THEN 1 ELSE 0]]}

RenderFonts == {[glyph_w |-> [b \in Letters |-> IF b = 97 THEN 1 ELSE 2],
                 space_advance |-> 1,
                 kern_left |-> k.left, kern_right |-> k.right,
                 line_skip |-> 3, height |-> 2] : k \in Kernings}

\* An atlas as in InitCache over one of the fonts, and the arguments of the
\* text() calls made on it.
InitRender ==
    /\ font \in RenderFonts
    /\ prerendered = EmptyMap
    /\ others \in {0, FlushThreshold - Margin}
    /\ nextSurface = 1
    /\ freed = {}
    /\ hist = EmptyMap
    /\ \E t \in Texts :
          input \in [text : {t}, max_line_width : Budgets, failing : FailingSets(t)]
    /\ ret = NoCall

TextReturns(r) ==
    /\ r.cache.next <= MaxSurfaces + 1
    /\ SetCache(r.cache)
    /\ ret' = [op |-> "text", crashed |-> r.crashed, surfaces |-> r.surfaces,
               canvas |-> r.canvas, widths |-> r.widths, lines |-> r.lines]

Text(ub) ==
    /\ Running
    /\ TextReturns(text(Cache, font, input.text, input.max_line_width, input.failing, ub))
    /\ UNCHANGED <<font, input>>

\* Another user of the atlas looks up one more distinct word.
RenderWordUntracked ==
    /\ Running
    /\ Size(Cache) >= FlushThreshold - Margin
    /\ SetCache(word_untracked(Cache))
    /\ ret' = [op |-> "word_untracked", crashed |-> FALSE]
    /\ UNCHANGED <<font, input>>

NextRender ==
    \/ \E ub \in UBOutcomes : Text(ub)
    \/ RenderWordUntracked

SpecRender == InitRender /\ [][NextRender]_vars

\* C1: every surface a text() call obtained from word() is still owned by the
\* cache, not released by clear(), when the call reads its width or blits it.
C1_FlushIsTransparent ==
    ret.op = "text" =>
        \A i \in 1..Len(ret.surfaces) : ret.surfaces[i] \notin freed

\* C8 (as stated): text("") returns a canvas of width 0 and height 0.
C8_EmptyIsZeroSized ==
    (ret.op = "text" /\ input.text = <<>>) => ret.canvas = [w |-> 0, h |-> 0]

\* C8 (amended): text("") returns a canvas of width 0 and of the font's height,
\* for any max_width, and leaves the cache alone.
C8_EmptyIsFontHigh ==
    (ret.op = "text" /\ input.text = <<>>) =>
        /\ ret.canvas = [w |-> 0, h |-> font.height]
        /\ ret.surfaces = <<>>

\* text("") was called with a width budget.
C8_Witness ==
    /\ ret.op = "text"
    /\ input.text = <<>>
    /\ input.max_line_width = 3
    /\ ~ret.crashed

\* The last call rendered a text with a budget, reading live surfaces only.
Rendered ==
    /\ ret.op = "text"
    /\ input.max_line_width # -1
    /\ ~ret.crashed
    /\ ret.surfaces # <<>>
    /\ \A i \in 1..Len(ret.surfaces) : Valid(Cache, ret.surfaces[i])

\* C10: in a bounded render every line of two or more words is narrower than
\* max_width; a line as wide as max_width or wider holds one word whose own
\* surface is that wide; every word is placed; the canvas is as wide as the
\* widest line and line-skip x lines high.
C10_LinesBelowBudget ==
    Rendered =>
        /\ Len(ret.lines) = Len(ret.widths)
        /\ \A n \in 1..Len(ret.lines) :
              LET line == ret.lines[n]
                  end == line[Len(line)].x + line[Len(line)].w
              IN  /\ ret.widths[n] = end
                  /\ Len(line) >= 2 => ret.widths[n] < input.max_line_width
                  /\ ret.widths[n] >= input.max_line_width =>
                        /\ Len(line) = 1
                        /\ WordWidth(font, InWords[line[1].surface]) = ret.widths[n]
        /\ <<>> \notin {ret.lines[n] : n \in 1..Len(ret.lines)}
        /\ ret.canvas.w = SeqMax(ret.widths)
        /\ ret.canvas.h = font.line_skip * Len(ret.lines)

\* Two words whose joined width would equal max_width exactly, the join
\* narrowed by kerning, were put on two lines.
C10_Witness ==
    /\ Rendered
    /\ Len(InWords) = 2
    /\ Len(ret.lines) = 2
    /\ ret.widths[1] + get_word_left_kerning(font, InWords[1]) + font.space_advance
         + get_word_right_kerning(font, InWords[2]) + ret.widths[2]
       = input.max_line_width
    /\ get_word_left_kerning(font, InWords[1]) < 0

====
